---------------------------- MODULE Spec2Model ----------------------------
(***************************************************************************)
(* A model of the two programs of CSVTU-GPT that carry state and control   *)
(* flow:                                                                   *)
(*   - Codes/Website-Scraping.py: the recursive crawler                    *)
(*     (web_scraping_text, extract_text_from_pdf, save_to_file);           *)
(*   - Codes/Streamlit_app_local.py: the question matcher                  *)
(*     (check_for_syllabus, find_common_word_matches, get_best_matches,    *)
(*     display_response).                                                  *)
(* SpecCrawl is one run of the crawler, SpecMatch one call of              *)
(* display_response.                                                       *)
(***************************************************************************)
EXTENDS Integers, Sequences, FiniteSets, TLC

VARIABLES
    \* ---- crawler (Website-Scraping.py) ----
    stack,          \* the call stack of web_scraping_text: frames [url, todo, pc]
    visited_links,  \* the global list visited_links
    success_links,  \* the global list success_links
    pdf_links,      \* the global list pdf_links
    corpus,         \* Complete_website_data-1.txt: the chunks appended, in order
    fetched,        \* history: how many times requests.get was called on each URL
    status,         \* "idle" | "running" | "returned" | "aborted"
    error,          \* the exception that left web_scraping_text uncaught, or "none"
    last,           \* history: the last step taken, [op, url, outcome]
    \* ---- matcher (Streamlit_app_local.py) ----
    pc,                   \* where display_response (or a direct call) stands
    user_input,           \* the query
    data,                 \* the dict of dataframes, in the order of its keys
    university_data,      \* the dataframe read at line 296
    syllabus_files,       \* line 259
    common_word_matches,  \* line 271
    matches,              \* line 273: the exact matches shown
    fuzzy_matches,        \* line 281
    university_matches,   \* line 300
    top_n,                \* the top_n of the last call of get_best_matches
    fuzz,                 \* the score process.extractOne gave each question
    shown,                \* what st.write, st.success, ... have put on the page
    stages                \* history: the stages run, in order

cvars == <<stack, visited_links, success_links, pdf_links, corpus, fetched,
           status, error, last>>

mvars == <<pc, user_input, data, university_data, syllabus_files,
           common_word_matches, matches, fuzzy_matches, university_matches,
           top_n, fuzz, shown, stages>>

vars == <<cvars, mvars>>

---------------------------------------------------------------------------
(***************************************************************************)
(* Bounds.                                                                 *)
(***************************************************************************)

\* The longest list of anchors soup.find_all('a') returns for one page.
MaxLinks == 2

\* The deepest nesting of web_scraping_text calls the interpreter allows
\* before it raises RecursionError (sys.getrecursionlimit(), 1000 by
\* default), scaled down to the size of the link graphs explored here.
RecursionLimit == 2

\* The most rows of one dataframe.
MaxRows == 2

\* The largest top_n get_best_matches is called with.
MaxTopN == 4

---------------------------------------------------------------------------
(***************************************************************************)
(* URLs.  A URL is the sequence of its pieces, so that the substring test  *)
(* 'csvtu.ac.in' in url and the suffix test url.lower().endswith('.pdf')   *)
(* are computed on it rather than looked up.                               *)
(***************************************************************************)

Marker == "csvtu.ac.in"

\* link.get('href') of an anchor that has no href attribute
None == << >>

StartUrl == <<"https://", "csvtu.ac.in", "/ew/">>
PageA    == <<"https://", "csvtu.ac.in", "/a">>
PageB    == <<"https://", "csvtu.ac.in", "/b">>
PdfDoc   == <<"https://", "csvtu.ac.in", "/d", ".PDF">>
OffPage  == <<"https://", "example.org", "/x">>
OffPdf   == <<"https://", "example.org", "/y", ".pdf">>

Urls == {StartUrl, PageA, PageB, PdfDoc, OffPage, OffPdf}

Hrefs == Urls \cup {None}

\* x in list, were only the last element looked at
In_LastOnly(x, list) == list # << >> /\ list[Len(list)] = x

\* x in list
In(x, list) == \E i \in 1..Len(list) : list[i] = x

\* substring in url
Contains(url, piece) == \E i \in 1..Len(url) : url[i] = piece

\* str.lower() on one piece of a URL
LowerPiece(p) == IF p = ".PDF" THEN ".pdf" ELSE p

\* url.lower()
LowerUrl(url) == [i \in 1..Len(url) |-> LowerPiece(url[i])]

\* url.endswith(suffix)
EndsWith(url, suffix) == Len(url) > 0 /\ url[Len(url)] = suffix

---------------------------------------------------------------------------
(***************************************************************************)
(* The crawler.                                                            *)
(***************************************************************************)

Top == stack[Len(stack)]

\* the frame below returns; the crawl has returned when no frame is left
Pop ==
    /\ stack' = SubSeq(stack, 1, Len(stack) - 1)
    /\ status' = IF Len(stack) = 1 THEN "returned" ELSE status
    /\ error' = error

\* an exception no except clause of web_scraping_text names unwinds every frame
Raise(exc) ==
    /\ stack' = << >>
    /\ status' = "aborted"
    /\ error' = exc

\* save_to_file(text): the text is appended to the file
save_to_file(text) == corpus' = corpus \o text

\* line 51: if url not in visited_links and 'csvtu.ac.in' in url
WebGuard(url) == ~In(url, visited_links) /\ Contains(url, Marker)

\* line 76 without its test of the domain marker
HrefGuard_NoDomain(href) == href # None /\ ~In(href, visited_links)

\* line 76: href is not None and 'csvtu.ac.in' in href and href not in visited_links
HrefGuard(href) ==
    href # None /\ Contains(href, Marker) /\ ~In(href, visited_links)

\* line 78: href.lower().endswith('.pdf')
IsPdfLink(href) == EndsWith(LowerUrl(href), ".pdf")

\* extract_text_from_pdf(url) with the response the server gives:
\*   "pdf"       content-type application/pdf, every page read (text extracted)
\*   "not_pdf"   another content-type: the if of line 23 has no else
\*   "network"   requests.get raises
\*   "malformed" PyPDF2 raises on the file
extract_text_from_pdf(url, outcome, text) ==
    IF ~In(url, visited_links)
    THEN /\ fetched' = [fetched EXCEPT ![url] = @ + 1]
         /\ CASE outcome = "pdf" ->
                    /\ save_to_file(text)
                    /\ visited_links' = Append(visited_links, url)
                    /\ pdf_links' = Append(pdf_links, url)
              [] outcome = "not_pdf" ->
                    UNCHANGED <<corpus, visited_links, pdf_links>>
              [] OTHER ->
                    /\ visited_links' = Append(visited_links, url)
                    /\ UNCHANGED <<corpus, pdf_links>>
    ELSE UNCHANGED <<fetched, corpus, visited_links, pdf_links>>

PdfOutcomes == {"pdf", "not_pdf", "network", "malformed"}

\* the text extracted from a document: one chunk named after its source, or
\* the empty string
Text(url, nonempty) == IF nonempty THEN <<url>> ELSE << >>

\* web_scraping_text(url) is called: the crawl starts
Call(url) ==
    /\ UNCHANGED mvars
    /\ status = "idle"
    /\ stack' = <<[url |-> url, todo |-> 0, pc |-> "call"]>>
    /\ status' = "running"
    /\ last' = [op |-> "call", url |-> url, outcome |-> "none"]
    /\ UNCHANGED <<visited_links, success_links, pdf_links, corpus, fetched, error>>

\* line 51 is false: the call returns at once
WebSkip ==
    /\ UNCHANGED mvars
    /\ status = "running" /\ Top.pc = "call"
    /\ ~WebGuard(Top.url)
    /\ Pop
    /\ last' = [op |-> "skip", url |-> Top.url, outcome |-> "none"]
    /\ UNCHANGED <<visited_links, success_links, pdf_links, corpus, fetched>>

\* lines 54-69: the page is fetched and parsed; links = soup.find_all('a') has
\* n anchors.  The frame keeps how many of them the for loop of line 71 has
\* still to take (todo); the href of each is drawn when the loop reaches it,
\* so every list of n hrefs is covered.  The content is HTML or anything else
\* ("non_html"): nothing between lines 54 and 69 looks at what was received.
WebFetchOk(content, nonempty, n) ==
    /\ UNCHANGED mvars
    /\ status = "running" /\ Top.pc = "call"
    /\ WebGuard(Top.url)
    /\ fetched' = [fetched EXCEPT ![Top.url] = @ + 1]
    /\ IF Text(Top.url, nonempty) # << >>
       THEN /\ save_to_file(Text(Top.url, nonempty))
            /\ success_links' = Append(success_links, Top.url)
       ELSE UNCHANGED <<corpus, success_links>>
    /\ visited_links' = Append(visited_links, Top.url)
    /\ stack' = [stack EXCEPT ![Len(stack)] =
                    [url |-> Top.url, todo |-> n, pc |-> "loop"]]
    /\ last' = [op |-> "page", url |-> Top.url, outcome |-> content]
    /\ UNCHANGED <<pdf_links, status, error>>

\* lines 83-90: requests.get raises ConnectTimeout or another RequestException
WebFetchFail(exc) ==
    /\ UNCHANGED mvars
    /\ status = "running" /\ Top.pc = "call"
    /\ WebGuard(Top.url)
    /\ fetched' = [fetched EXCEPT ![Top.url] = @ + 1]
    /\ visited_links' = Append(visited_links, Top.url)
    /\ Pop
    /\ last' = [op |-> "page", url |-> Top.url, outcome |-> exc]
    /\ UNCHANGED <<success_links, pdf_links, corpus>>

\* line 57 or 60 raises (the parser rejects the content): neither except
\* clause names the exception
WebParseFail ==
    /\ UNCHANGED mvars
    /\ status = "running" /\ Top.pc = "call"
    /\ WebGuard(Top.url)
    /\ fetched' = [fetched EXCEPT ![Top.url] = @ + 1]
    /\ Raise("ParserRejectedMarkup")
    /\ last' = [op |-> "page", url |-> Top.url, outcome |-> "ParserRejectedMarkup"]
    /\ UNCHANGED <<visited_links, success_links, pdf_links, corpus>>

\* the for loop of line 71 takes its next anchor
Advance == [stack EXCEPT ![Len(stack)].todo = Top.todo - 1]

\* line 76 is false for the next anchor, whose href is href
LoopSkip(href) ==
    /\ UNCHANGED mvars
    /\ status = "running" /\ Top.pc = "loop" /\ Top.todo > 0
    /\ ~HrefGuard(href)
    /\ stack' = Advance
    /\ last' = [op |-> "skiplink", url |-> href, outcome |-> "none"]
    /\ UNCHANGED <<visited_links, success_links, pdf_links, corpus, fetched,
                   status, error>>

\* line 79: the next anchor is a PDF link
LoopPdf(href, outcome, nonempty) ==
    /\ UNCHANGED mvars
    /\ status = "running" /\ Top.pc = "loop" /\ Top.todo > 0
    /\ HrefGuard(href) /\ IsPdfLink(href)
    /\ extract_text_from_pdf(href, outcome, Text(href, nonempty))
    /\ stack' = Advance
    /\ last' = [op |-> "pdf", url |-> href, outcome |-> outcome]
    /\ UNCHANGED <<success_links, status, error>>

\* line 81: the next anchor is followed
LoopRecurse(href) ==
    /\ UNCHANGED mvars
    /\ status = "running" /\ Top.pc = "loop" /\ Top.todo > 0
    /\ HrefGuard(href) /\ ~IsPdfLink(href)
    /\ IF Len(stack) < RecursionLimit
       THEN /\ stack' = Append(Advance,
                            [url |-> href, todo |-> 0, pc |-> "call"])
            /\ UNCHANGED <<status, error>>
       ELSE Raise("RecursionError")
    /\ last' = [op |-> "recurse", url |-> href,
                outcome |-> IF Len(stack) < RecursionLimit THEN "none"
                            ELSE "RecursionError"]
    /\ UNCHANGED <<visited_links, success_links, pdf_links, corpus, fetched>>

\* the for loop of line 71 is over: the call returns
LoopEnd ==
    /\ UNCHANGED mvars
    /\ status = "running" /\ Top.pc = "loop" /\ Top.todo = 0
    /\ Pop
    /\ last' = [op |-> "return", url |-> Top.url, outcome |-> "none"]
    /\ UNCHANGED <<visited_links, success_links, pdf_links, corpus, fetched>>

web_scraping_text ==
    \/ WebSkip
    \/ \E content \in {"html", "non_html"}, nonempty \in BOOLEAN, n \in 0..MaxLinks :
            WebFetchOk(content, nonempty, n)
    \/ \E exc \in {"ConnectTimeout", "RequestException"} : WebFetchFail(exc)
    \/ WebParseFail
    \/ \E href \in Hrefs : LoopSkip(href)
    \/ \E href \in Hrefs, outcome \in PdfOutcomes, nonempty \in BOOLEAN :
            LoopPdf(href, outcome, nonempty)
    \/ \E href \in Hrefs : LoopRecurse(href)
    \/ LoopEnd

---------------------------------------------------------------------------
(***************************************************************************)
(* Strings of the matcher.  A string is the sequence of its                *)
(* whitespace-separated words, and a word carries its text as written and  *)
(* the text str.lower() makes of it, so that lowercasing is computed.  A   *)
(* run of whitespace is the word Space, which str.split() drops.           *)
(***************************************************************************)

W(cased, lc) == [cased |-> cased, lc |-> lc]

Space == W(" ", " ")

\* the missing value pandas gives an empty cell
NaN == <<W("<NaN>", "<NaN>")>>

\* pd.notna(x)
notna(x) == x # NaN

\* s.lower()
lower(s) == [i \in 1..Len(s) |-> W(s[i].lc, s[i].lc)]

\* s.split()
split(s) == SelectSeq(s, LAMBDA w : w # Space)

\* set(s.lower().split())
WordSet(s) == {split(lower(s))[i] : i \in 1..Len(split(lower(s)))}

\* astype(str) on one cell
astype_str(x) == IF x = NaN THEN <<W("nan", "nan")>> ELSE x

\* lines 39-87
Semester_subject_names == <<
    [semester |-> "Semester_1", subjects |-> <<
        <<W("Engineering", "engineering"), W("Mathematics", "mathematics"), W("I", "i")>>,
        <<W("Environmental", "environmental"), W("Science", "science")>>,
        <<W("Foundations", "foundations"), W("of", "of"), W("Electronics", "electronics"), W("Engineering", "engineering")>>,
        <<W("Fundamentals", "fundamentals"), W("of", "of"), W("Computational", "computational"), W("Biology", "biology")>>,
        <<W("Language", "language"), W("and", "and"), W("Writing", "writing"), W("Skills", "skills")>>,
        <<W("Learning", "learning"), W("Programming", "programming"), W("Concepts", "concepts"), W("With", "with"), W("C", "c")>>,
        <<W("Professional", "professional"), W("Ethics", "ethics"), W("and", "and"), W("Life", "life"), W("Skills", "skills")>>
    >>],
    [semester |-> "Semester_2", subjects |-> <<
        <<W("Data", "data"), W("Structure", "structure"), W("Using", "using"), W("C", "c")>>,
        <<W("Digital", "digital"), W("Logic", "logic"), W("and", "and"), W("Design", "design")>>,
        <<W("Engineering", "engineering"), W("Mathematics", "mathematics"), W("II", "ii")>>,
        <<W("Entrepreneurship", "entrepreneurship")>>,
        <<W("Object-Oriented", "object-oriented"), W("Programming", "programming")>>,
        <<W("Python", "python"), W("for", "for"), W("Data", "data"), W("Science", "science")>>
    >>],
    [semester |-> "Semester_3", subjects |-> <<
        <<W("Analysis", "analysis"), W("and", "and"), W("Design", "design"), W("of", "of"), W("Algorithm", "algorithm")>>,
        <<W("Computer", "computer"), W("Organization", "organization"), W("and", "and"), W("Architecture", "architecture")>>,
        <<W("Database", "database"), W("Management", "management"), W("System", "system")>>,
        <<W("Discrete", "discrete"), W("Structure", "structure")>>,
        <<W("Independent", "independent"), W("Project", "project")>>,
        <<W("Probability", "probability"), W("and", "and"), W("Statistics", "statistics")>>
    >>],
    [semester |-> "Semester_4", subjects |-> <<
        <<W("Artificial", "artificial"), W("Intelligence", "intelligence"), W("Principles", "principles"), W("and", "and"), W("Applications", "applications")>>,
        <<W("Computer", "computer"), W("Network", "network")>>,
        <<W("Data", "data"), W("Visualization", "visualization")>>,
        <<W("Operating", "operating"), W("System", "system")>>,
        <<W("R", "r"), W("for", "for"), W("Data", "data"), W("Science", "science")>>,
        <<W("Theory", "theory"), W("of", "of"), W("Computation", "computation")>>
    >>],
    [semester |-> "Semester_5", subjects |-> <<
        <<W("Computational", "computational"), W("Complexity", "complexity")>>,
        <<W("Cryptography", "cryptography"), W("and", "and"), W("Network", "network"), W("Security", "security")>>,
        <<W("Intelligent", "intelligent"), W("Data", "data"), W("Analysis", "analysis")>>,
        <<W("Natural", "natural"), W("Language", "language"), W("Processing", "processing")>>,
        <<W("Pattern", "pattern"), W("Recognition", "recognition"), W("and", "and"), W("Machine", "machine"), W("Learning", "learning")>>,
        <<W("Vocational", "vocational"), W("Training", "training")>>
    >>],
    [semester |-> "Semester_7", subjects |-> <<
        <<W("Software", "software"), W("Engineering", "engineering")>>,
        <<W("Big", "big"), W("Data", "data"), W("Analytics", "analytics")>>,
        <<W("Image", "image"), W("Processing", "processing")>>,
        <<W("Data", "data"), W("Wrangling", "wrangling")>>
    >>]
>>

\* line 231: f"Preprocessed_{semester}_Syllabus_Question_Answer.csv"
SyllabusFile(semester) ==
    <<"Preprocessed_", semester, "_Syllabus_Question_Answer.csv">>

\* line 240: f"Preprocessed_Semester_{i}_Syllabus_Question_Answer.csv"
SemesterFile(i) ==
    SyllabusFile(<<"Semester_1", "Semester_2", "Semester_3", "Semester_4",
                   "Semester_5", "Semester_6", "Semester_7">>[i])

\* line 229: user_words.intersection(subjects), a token being equal to a
\* subject when the subject is that one word, written the same
SubjectHits(user_words, subjects) ==
    {w \in user_words : \E i \in 1..Len(subjects) : subjects[i] = <<w>>}

\* lines 228-232, over the first k semesters of the dictionary
RECURSIVE SubjectFiles(_, _)
SubjectFiles(user_words, k) ==
    IF k = 0 THEN << >>
    ELSE LET entry == Semester_subject_names[k]
             before == SubjectFiles(user_words, k - 1)
         IN  IF SubjectHits(user_words, entry.subjects) # {}
             THEN Append(before, SyllabusFile(entry.semester))
             ELSE before

\* lines 235-244, were line 239 to list every semester instead of filtering
SyllabusWord_AllSemesters(files) ==
    IF Len(files) = 1
    THEN <<files[1]>>
    ELSE [i \in 1..7 |-> SemesterFile(i)]

\* lines 235-244: the word 'syllabus' is in the query
SyllabusWord(files) ==
    IF Len(files) = 1
    THEN <<files[1]>>
    ELSE SelectSeq([i \in 1..7 |-> SemesterFile(i)], LAMBDA f : In(f, files))

\* check_for_syllabus(user_input)
check_for_syllabus(input) ==
    LET user_words == WordSet(input)
        files == SubjectFiles(user_words, Len(Semester_subject_names))
    IN  IF W("syllabus", "syllabus") \in user_words
        THEN SyllabusWord(files)
        ELSE files

---------------------------------------------------------------------------
(***************************************************************************)
(* Dataframes.  A dataframe is [columns, rows]; a row has a Question and   *)
(* an Answer cell, read only when the dataframe has the column.            *)
(***************************************************************************)

Match(file_name, question, score, answer) ==
    [file_name |-> file_name, question |-> question, score |-> score,
     answer |-> answer]

\* line 157 and 196: {"Question", "Answer"}.issubset(df.columns)
HasBoth(df) == {"Question", "Answer"} \subseteq df.columns

\* lines 159-163 without .lower()
question_words_AsWritten(row) ==
    IF notna(row.Question)
    THEN {split(row.Question)[i] : i \in 1..Len(split(row.Question))}
    ELSE {}

\* lines 159-163
question_words(row) ==
    IF notna(row.Question) THEN WordSet(row.Question) ELSE {}

\* lines 164-168
answer_words(row) ==
    IF notna(row.Answer) THEN WordSet(row.Answer) ELSE {}

\* lines 170-175: what one row adds to matches
RowMatches(user_words, file_name, row) ==
    IF user_words \subseteq (question_words(row) \cup answer_words(row))
    THEN <<Match(file_name, row.Question, 100, row.Answer)>>
    ELSE IF user_words \cap (question_words(row) \cup answer_words(row)) # {}
         THEN <<Match(file_name, row.Question, 70, row.Answer)>>
         ELSE << >>

\* line 158: for _, row in df.iterrows(), over the first k rows
RECURSIVE FrameMatches(_, _, _, _)
FrameMatches(user_words, file_name, rows, k) ==
    IF k = 0 THEN << >>
    ELSE FrameMatches(user_words, file_name, rows, k - 1)
            \o RowMatches(user_words, file_name, rows[k])

\* line 156: for file_name, df in data.items(), over the first k dataframes
RECURSIVE CommonMatches(_, _, _)
CommonMatches(user_words, frames, k) ==
    IF k = 0 THEN << >>
    ELSE CommonMatches(user_words, frames, k - 1)
            \o (IF HasBoth(frames[k].df)
                THEN FrameMatches(user_words, frames[k].file_name,
                                  frames[k].df.rows, Len(frames[k].df.rows))
                ELSE << >>)

\* find_common_word_matches(user_input, data)
find_common_word_matches(input, frames) ==
    CommonMatches(WordSet(input), frames, Len(frames))

\* lines 197-198: df["Question"] and df["Answer"] become strings, in place
StrFrame(df) ==
    [columns |-> df.columns,
     rows |-> [i \in 1..Len(df.rows) |->
                  [Question |-> astype_str(df.rows[i].Question),
                   Answer |-> astype_str(df.rows[i].Answer)]]]

\* the dict after get_best_matches has gone over it
StrFrames(frames) ==
    [k \in 1..Len(frames) |->
        [file_name |-> frames[k].file_name,
         df |-> IF HasBoth(frames[k].df) THEN StrFrame(frames[k].df)
                ELSE frames[k].df]]

\* line 206: df[df["Question"] == question]["Answer"].values[0]
FirstAnswer(rows, question) ==
    rows[CHOOSE i \in 1..Len(rows) :
            /\ rows[i].Question = question
            /\ \A j \in 1..(i - 1) : rows[j].Question # question].Answer

\* lines 199-208, over the first k questions of one dataframe; score is
\* process.extractOne(user_input, [question])[1]
RECURSIVE FrameScores(_, _, _, _)
FrameScores(file_name, rows, k, score) ==
    IF k = 0 THEN << >>
    ELSE Append(FrameScores(file_name, rows, k - 1, score),
                Match(file_name, rows[k].Question, score[rows[k].Question],
                      FirstAnswer(rows, rows[k].Question)))

\* line 195: for file_name, df in data.items(), over the first k dataframes
RECURSIVE AllScores(_, _, _)
AllScores(frames, k, score) ==
    IF k = 0 THEN << >>
    ELSE AllScores(frames, k - 1, score)
            \o (IF HasBoth(frames[k].df)
                THEN FrameScores(frames[k].file_name,
                                 StrFrame(frames[k].df).rows,
                                 Len(frames[k].df.rows), score)
                ELSE << >>)

\* one step of sorted(..., reverse=True): m goes after the entries that score
\* at least as much (the sort is stable)
InsertByScore(sorted, m) ==
    LET k == Cardinality({i \in 1..Len(sorted) : sorted[i].score >= m.score})
    IN  SubSeq(sorted, 1, k) \o <<m>> \o SubSeq(sorted, k + 1, Len(sorted))

\* line 210 left out: the matches stay in the order they were collected
SortedByScore_Unsorted(ms) == ms

\* line 210: sorted(matches, key=lambda x: x[2], reverse=True)
RECURSIVE SortedByScore(_)
SortedByScore(ms) ==
    IF ms = << >> THEN << >>
    ELSE InsertByScore(SortedByScore(SubSeq(ms, 1, Len(ms) - 1)), ms[Len(ms)])

\* list[:n]
Slice(list, n) ==
    IF n >= 0
    THEN SubSeq(list, 1, IF n < Len(list) THEN n ELSE Len(list))
    ELSE SubSeq(list, 1, IF Len(list) + n > 0 THEN Len(list) + n ELSE 0)

\* get_best_matches(user_input, data, top_n)
get_best_matches(frames, n, score) ==
    Slice(SortedByScore(AllScores(frames, Len(frames), score)), n)

---------------------------------------------------------------------------
(***************************************************************************)
(* The inputs explored: queries, rows, dataframes and scores.              *)
(***************************************************************************)

RowDb ==
    [Question |-> <<W("Database", "database"), W("Management", "management"),
                    W("System", "system")>>,
     Answer |-> NaN]

RowNet ==
    [Question |-> <<W("network", "network"), W("security", "security")>>,
     Answer |-> <<W("Database", "database"), W("management", "management")>>]

RowNaN ==
    [Question |-> NaN, Answer |-> <<W("network", "network")>>]

Rows == {RowDb, RowNet, RowNaN}

Queries ==
    { << >>,
      <<Space>>,
      <<W("database", "database"), W("management", "management"),
        W("system", "system")>>,
      <<W("Entrepreneurship", "entrepreneurship")>>,
      <<W("syllabus", "syllabus")>>,
      <<W("Entrepreneurship", "entrepreneurship"), W("syllabus", "syllabus")>>,
      <<W("network", "network"), W("securty", "securty")>>,
      <<W("exam", "exam")>> }

\* the dataframes a CSV file may hold: up to MaxRows rows under both columns,
\* or a file without the Answer column
Frames ==
    {[columns |-> {"Question", "Answer"}, rows |-> r] :
        r \in UNION {[1..k -> Rows] : k \in 0..MaxRows}}
    \cup {[columns |-> {"Question"}, rows |-> <<RowDb>>]}

FileNames ==
    <<"Preprocessed_Semester_3_Syllabus_Question_Answer.csv",
      "General_Question_Answer.csv">>

\* the dicts load_data_from_directory may return
DataChoices ==
    UNION {{[k \in 1..n |-> [file_name |-> FileNames[k], df |-> f[k]]] :
                f \in [1..n -> Frames]} : n \in 0..Len(FileNames)}

\* the scores process.extractOne may give
Scores == {45, 86, 100}

\* the questions get_best_matches gives process.extractOne: those of the
\* dataframes that have both columns, as strings
QuestionsIn(frames) ==
    UNION {{astype_str(frames[k].df.rows[i].Question) :
                i \in 1..Len(frames[k].df.rows)} :
            k \in {j \in 1..Len(frames) : HasBoth(frames[j].df)}}

\* every way process.extractOne may score them
ScoreChoices(frames) == [QuestionsIn(frames) -> Scores]

\* lines 352-360: os.path.join(data_directory, university_file)
university_file_path ==
    "Dataset/Preprocessed_Dataset/University_Website_Data_Question_Answer.csv"

\* the default of top_n
DefaultTopN == 3

---------------------------------------------------------------------------
(***************************************************************************)
(* display_response.                                                       *)
(***************************************************************************)

NoMatch == Match("", << >>, 0, << >>)

NoFrame == [columns |-> {}, rows |-> << >>]

\* a line put on the page
Shown(call, text, match) == [call |-> call, text |-> text, match |-> match]

\* lines 285-292 and 304-311
Bucket(score) ==
    IF score >= 90 THEN "success"
    ELSE IF score >= 80 THEN "warning"
    ELSE IF score >= 70 THEN "error"
    ELSE "info"

\* lines 284-292 and 303-311
ShownFuzzy(ms) ==
    [i \in 1..Len(ms) |-> Shown(Bucket(ms[i].score), "Question/Answer", ms[i])]

\* lines 275-276, were the matches sorted by score before they are shown
ShownExact_Sorted(ms) ==
    [i \in 1..Len(ms) |-> Shown("success", "Question/Answer", SortedByScore(ms)[i])]

\* lines 275-276
ShownExact(ms) ==
    [i \in 1..Len(ms) |-> Shown("success", "Question/Answer", ms[i])]

\* lines 262-264
ShownSyllabus(files) ==
    <<Shown("write", "### Relevant Syllabus Files", NoMatch)>>
        \o [i \in 1..Len(files) |-> Shown("write", files[i][2], NoMatch)]

\* line 268
filtered_data(frames) ==
    SelectSeq(frames, LAMBDA f : f.file_name # university_file_path)

\* lines 261-267: where display_response goes after check_for_syllabus
AfterSyllabus(files, input) ==
    IF files # << >> THEN "done"
    ELSE IF input # << >> THEN "common"
    ELSE "done"

\* lines 272-277 without the return of line 277
AfterCommon_NoReturn(found) == "fuzzy"

\* lines 272-277: where it goes after find_common_word_matches
AfterCommon(found) == IF found # << >> THEN "done" ELSE "fuzzy"

\* lines 283-293: where it goes after the first get_best_matches
AfterFuzzy(found) == IF found # << >> THEN "done" ELSE "fallback"

\* lines 259-267
CheckSyllabus ==
    /\ UNCHANGED cvars
    /\ pc = "start"
    /\ syllabus_files' = check_for_syllabus(user_input)
    /\ stages' = Append(stages, "syllabus")
    /\ shown' = IF syllabus_files' # << >>
                THEN shown \o ShownSyllabus(syllabus_files')
                ELSE shown
    /\ pc' = AfterSyllabus(syllabus_files', user_input)
    /\ UNCHANGED <<user_input, data, university_data, common_word_matches,
                   matches, fuzzy_matches, university_matches, top_n, fuzz>>

\* lines 268-277
CommonWordStage ==
    /\ UNCHANGED cvars
    /\ pc = "common"
    /\ common_word_matches' =
            find_common_word_matches(user_input, filtered_data(data))
    /\ stages' = Append(stages, "common")
    /\ IF common_word_matches' # << >>
       THEN /\ matches' = Slice(common_word_matches', 3)
            /\ shown' = shown \o <<Shown("write", "### Exact Matches", NoMatch)>>
                              \o ShownExact(matches')
       ELSE UNCHANGED <<matches, shown>>
    /\ pc' = AfterCommon(common_word_matches')
    /\ UNCHANGED <<user_input, data, university_data, syllabus_files,
                   fuzzy_matches, university_matches, top_n, fuzz>>

\* lines 280-293
FuzzyStage(score) ==
    /\ UNCHANGED cvars
    /\ pc = "fuzzy"
    /\ fuzz' = score
    /\ top_n' = DefaultTopN
    /\ fuzzy_matches' = get_best_matches(filtered_data(data), DefaultTopN, score)
    /\ data' = StrFrames(data)
    /\ stages' = Append(stages, "fuzzy")
    /\ shown' = shown \o <<Shown("write", "### Fuzzy Matches", NoMatch)>>
                      \o ShownFuzzy(fuzzy_matches')
    /\ pc' = AfterFuzzy(fuzzy_matches')
    /\ UNCHANGED <<user_input, university_data, syllabus_files,
                   common_word_matches, matches, university_matches>>

\* lines 296-313; university is what pd.read_csv(university_file_path) returns
FallbackStage(university, score) ==
    /\ UNCHANGED cvars
    /\ pc = "fallback"
    /\ stages' = Append(stages, "fallback")
    /\ IF HasBoth(university)
       THEN /\ university_data' = StrFrame(university)
            /\ fuzz' = score
            /\ top_n' = DefaultTopN
            /\ university_matches' =
                    get_best_matches(
                        <<[file_name |-> "University", df |-> university_data']>>,
                        DefaultTopN, score)
            /\ shown' = IF university_matches' # << >>
                        THEN shown \o ShownFuzzy(university_matches')
                        ELSE Append(shown,
                                Shown("warning",
                                      "Sorry, no relevant answers found.", NoMatch))
       ELSE /\ university_data' = university
            /\ UNCHANGED <<fuzz, top_n, university_matches, shown>>
    /\ pc' = "done"
    /\ UNCHANGED <<user_input, data, syllabus_files, common_word_matches, matches,
                   fuzzy_matches>>

display_response ==
    \/ CheckSyllabus
    \/ CommonWordStage
    \/ \E score \in ScoreChoices(data) : FuzzyStage(score)
    \/ \E university \in Frames :
            \E score \in ScoreChoices(<<[file_name |-> "University",
                                         df |-> university]>>) :
                FallbackStage(university, score)

\* get_best_matches(user_input, data, n) called on its own
GetBestMatchesCall(n, score) ==
    /\ UNCHANGED cvars
    /\ pc = "call"
    /\ fuzz' = score
    /\ top_n' = n
    /\ fuzzy_matches' = get_best_matches(data, n, score)
    /\ data' = StrFrames(data)
    /\ pc' = "returned"
    /\ UNCHANGED <<user_input, university_data, syllabus_files,
                   common_word_matches, matches, university_matches, shown, stages>>

---------------------------------------------------------------------------
(***************************************************************************)
(* The specifications.                                                     *)
(***************************************************************************)

\* line 10: pdf_links, visited_links, success_links = [],[],[]
CrawlInit ==
    /\ stack = << >>
    /\ visited_links = << >>
    /\ success_links = << >>
    /\ pdf_links = << >>
    /\ corpus = << >>
    /\ fetched = [u \in Urls |-> 0]
    /\ status = "idle"
    /\ error = "none"
    /\ last = [op |-> "none", url |-> None, outcome |-> "none"]

\* the matcher before a query: nothing computed, nothing shown
MatchInit(at, inputs, dicts) ==
    /\ pc = at
    /\ user_input \in inputs
    /\ data \in dicts
    /\ university_data = NoFrame
    /\ syllabus_files = << >>
    /\ common_word_matches = << >>
    /\ matches = << >>
    /\ fuzzy_matches = << >>
    /\ university_matches = << >>
    /\ top_n = DefaultTopN
    /\ fuzz = << >>
    /\ shown = << >>
    /\ stages = << >>

\* one run of the crawler: web_scraping_text(start) for some start
InitCrawl == CrawlInit /\ MatchInit("idle", {<< >>}, {<< >>})

CrawlNext ==
    \/ \E url \in Urls : Call(url)
    \/ web_scraping_text

SpecCrawl == InitCrawl /\ [][CrawlNext]_vars

\* one call of display_response(user_input, data, university_file_path)
InitMatch == CrawlInit /\ MatchInit("start", Queries, DataChoices)

MatchNext == display_response

SpecMatch == InitMatch /\ [][MatchNext]_vars

\* one call of get_best_matches(user_input, data, top_n); the scores being
\* drawn whatever the query, two queries stand for all
InitFuzzy ==
    CrawlInit
        /\ MatchInit("call",
                     {<<W("exam", "exam")>>,
                      <<W("network", "network"), W("securty", "securty")>>},
                     DataChoices)

FuzzyNext ==
    \E n \in 0..MaxTopN, score \in ScoreChoices(data) :
        GetBestMatchesCall(n, score)

SpecFuzzy == InitFuzzy /\ [][FuzzyNext]_vars

---------------------------------------------------------------------------
(***************************************************************************)
(* Properties of the crawler.                                              *)
(***************************************************************************)

\* u is an element of the list
Listed(u, list) == \E i \in DOMAIN list : list[i] = u

\* the URL holds the domain marker somewhere
HasMarker(u) == \E i \in DOMAIN u : u[i] = "csvtu.ac.in"

\* C1: no requests.get, in web_scraping_text or in extract_text_from_pdf, is
\* issued for a URL that is in visited_links at that moment: once a URL is
\* marked visited, its fetch count never grows again in the run.
C1_NoFetchOfVisited ==
    [][\A u \in Urls : Listed(u, visited_links) => fetched'[u] = fetched[u]]_vars

\* C1's case: an anchor leads to a URL fetched and marked visited before, and
\* the loop passes over it.
C1_Witness ==
    /\ last.op = "skiplink"
    /\ last.url # None
    /\ Listed(last.url, visited_links)
    /\ fetched[last.url] = 1

\* C2: a URL without the domain marker is never fetched, as a page or as a
\* PDF, and never enters visited_links, success_links or pdf_links.
C2_DomainContainment ==
    \A u \in Urls :
        ~HasMarker(u) =>
            /\ fetched[u] = 0
            /\ ~Listed(u, visited_links)
            /\ ~Listed(u, success_links)
            /\ ~Listed(u, pdf_links)

\* C2's case: a fetched page holds an anchor to a PDF of another site, and
\* the loop has passed over it.
C2_Witness ==
    /\ last.op = "skiplink"
    /\ last.url = OffPdf
    /\ fetched[StartUrl] = 1

\* C3, as claimed: every call of extract_text_from_pdf that does not end in a
\* successful extraction (non-PDF content type, network failure, malformed
\* PDF) appends nothing to the corpus, leaves the URL in visited_links and
\* lets no exception reach the caller.
C3_FailedPdfMarkedVisited ==
    [][(last'.op = "pdf" /\ last'.outcome \in {"not_pdf", "network", "malformed"})
        => /\ corpus' = corpus
           /\ Listed(last'.url, visited_links')
           /\ status' = "running"]_vars

\* C4, as claimed: a page whose fetch or processing fails (connect timeout,
\* request exception, non-HTML content, parse failure) is added to
\* visited_links, adds nothing to the corpus or to success_links, and the
\* failure does not reach the caller, which goes on with its loop.
C4_FailedPageContained ==
    [][(last'.op = "page" /\ last'.outcome \in
            {"ConnectTimeout", "RequestException", "non_html", "ParserRejectedMarkup"})
        => /\ Listed(last'.url, visited_links')
           /\ corpus' = corpus
           /\ success_links' = success_links
           /\ status' # "aborted"]_vars

\* C5, as claimed: with every fetch ending in success, network failure,
\* non-PDF content or a malformed PDF, the crawl never aborts with an
\* uncaught error (a parse failure of a page is none of these outcomes).
C5_CrawlNeverAborts ==
    status = "aborted" => error = "ParserRejectedMarkup"

---------------------------------------------------------------------------
(***************************************************************************)
(* Properties of the matcher.                                              *)
(***************************************************************************)

\* the stage has run
Ran(stage) == \E i \in DOMAIN stages : stages[i] = stage

\* the lowercase words of a cell, a missing cell having none
CellWords(cell) ==
    IF cell = NaN THEN {}
    ELSE {cell[i].lc : i \in {j \in DOMAIN cell : cell[j].cased # " "}}

\* the lowercase words of the query
QueryWords == CellWords(user_input)

\* the words of a row's Question and Answer together
RowWords(row) == CellWords(row.Question) \cup CellWords(row.Answer)

\* the rows of the dataframes that have both columns: <<dataframe, row>>
Places ==
    UNION {{<<k, i>> : i \in 1..Len(data[k].df.rows)} :
            k \in {j \in 1..Len(data) :
                    /\ "Question" \in data[j].df.columns
                    /\ "Answer" \in data[j].df.columns}}

RowAt(p) == data[p[1]].df.rows[p[2]]

\* p comes no later than q in the order the dataframes and rows are gone over
NotAfter(p, q) == p[1] < q[1] \/ (p[1] = q[1] /\ p[2] <= q[2])

\* the score the common-word stage owes a row: 0 for a row it must pass over
Owed(row) ==
    IF \A w \in QueryWords : w \in RowWords(row) THEN 100
    ELSE IF \E w \in QueryWords : w \in RowWords(row) THEN 70
    ELSE 0

Hits == {p \in Places : Owed(RowAt(p)) > 0}

\* C6: the stages run in the order syllabus, common-word, fuzzy, fallback,
\* each only when every earlier one found nothing; the fuzzy stage never
\* starts while a row's Question and Answer words hold every query word.
C6_StagePrecedence ==
    /\ \E n \in 0..4 :
            stages = SubSeq(<<"syllabus", "common", "fuzzy", "fallback">>, 1, n)
    /\ Ran("common") => syllabus_files = << >>
    /\ Ran("fuzzy") => syllabus_files = << >> /\ common_word_matches = << >>
    /\ Ran("fallback") =>
            /\ syllabus_files = << >>
            /\ common_word_matches = << >>
            /\ fuzzy_matches = << >>
    /\ pc = "fuzzy" =>
            \A p \in Places : \E w \in QueryWords : w \notin RowWords(RowAt(p))

\* C6's case: a row holds every word of a non-empty query, and
\* display_response is over after the common-word stage.
C6_Witness ==
    /\ pc = "done"
    /\ stages = <<"syllabus", "common">>
    /\ QueryWords # {}
    /\ \E p \in Places : \A w \in QueryWords : w \in RowWords(RowAt(p))

\* the score process.extractOne gave the row
ScoreAt(p) == fuzz[RowAt(p).Question]

Least(a, b) == IF a < b THEN a ELSE b

\* C7: for top_n >= 0, get_best_matches returns min(top_n, rows of the
\* dataframes with both columns) entries, each a scored row, their scores
\* non-increasing, and no row left out scores more than one returned: above
\* any score, the list holds as many entries as there are rows, up to its
\* length.
C7_BestMatchesAreTop ==
    pc = "returned" =>
        /\ Len(fuzzy_matches) = Least(top_n, Cardinality(Places))
        /\ \A i \in 1..(Len(fuzzy_matches) - 1) :
                fuzzy_matches[i].score >= fuzzy_matches[i + 1].score
        /\ \A i \in 1..Len(fuzzy_matches) :
                \E p \in Places :
                    /\ fuzzy_matches[i].file_name = data[p[1]].file_name
                    /\ fuzzy_matches[i].question = RowAt(p).Question
                    /\ fuzzy_matches[i].score = ScoreAt(p)
        /\ \A v \in Scores :
                Cardinality({i \in 1..Len(fuzzy_matches) : fuzzy_matches[i].score > v})
                    = Least(Len(fuzzy_matches),
                            Cardinality({p \in Places : ScoreAt(p) > v}))

\* C7's case: four rows scored unequally, the top three asked for, so one
\* row is left out and the order matters.
C7_Witness ==
    /\ pc = "returned"
    /\ top_n = 3
    /\ Cardinality(Places) = 4
    /\ Len(fuzzy_matches) = 3
    /\ fuzzy_matches[1].score > fuzzy_matches[3].score
    /\ \E p \in Places : ScoreAt(p) < fuzzy_matches[1].score

\* the query holds the words of the subject, one after the other, in any case
Mentions(input, subject) ==
    \E o \in 0..(Len(input) - Len(subject)) :
        \A i \in 1..Len(subject) : input[o + i].lc = subject[i].lc

\* C8, as claimed: a query that mentions a subject of semester S gets
\* Preprocessed_S_Syllabus_Question_Answer.csv from check_for_syllabus, and
\* display_response shows the files and runs no other stage.
C8_SubjectGetsSyllabus ==
    Ran("syllabus") =>
        \A k \in 1..Len(Semester_subject_names) :
            (\E j \in 1..Len(Semester_subject_names[k].subjects) :
                Mentions(user_input, Semester_subject_names[k].subjects[j]))
            => /\ \E i \in DOMAIN syllabus_files :
                    syllabus_files[i] = <<"Preprocessed_",
                                          Semester_subject_names[k].semester,
                                          "_Syllabus_Question_Answer.csv">>
               /\ stages = <<"syllabus">>
               /\ pc = "done"

\* C9, as claimed: a non-empty query for which no stage finds a candidate,
\* the fallback table lacking a column included, ends with the warning
\* 'Sorry, no relevant answers found.' on the page.
C9_NoAnswerShown ==
    (/\ pc = "done"
     /\ user_input # << >>
     /\ syllabus_files = << >>
     /\ Ran("fallback")
     /\ university_matches = << >>)
    => /\ shown # << >>
       /\ shown[Len(shown)].call = "warning"
       /\ shown[Len(shown)].text = "Sorry, no relevant answers found."

\* C10: the common-word stage records, in the order of the dataframes and
\* rows, exactly the rows of the dataframes with both columns that share a
\* word with the query: with score 100 when the row's Question and Answer
\* words hold every query word, with score 70 otherwise; a missing cell has
\* no words.  A query that is a row's Question in lowercase gets that row
\* with score 100.
C10_CommonWordMatches ==
    (Ran("common") /\ ~Ran("fuzzy")) =>
        /\ Len(common_word_matches) = Cardinality(Hits)
        /\ \A p \in Hits :
                common_word_matches[Cardinality({q \in Hits : NotAfter(q, p)})]
                    = [file_name |-> data[p[1]].file_name,
                       question |-> RowAt(p).Question,
                       score |-> Owed(RowAt(p)),
                       answer |-> RowAt(p).Answer]
        /\ \A p \in Places :
                (/\ RowAt(p).Question # NaN
                 /\ Len(user_input) = Len(RowAt(p).Question)
                 /\ \A i \in DOMAIN user_input :
                        user_input[i].cased = RowAt(p).Question[i].lc)
                => \E i \in DOMAIN common_word_matches :
                        /\ common_word_matches[i].question = RowAt(p).Question
                        /\ common_word_matches[i].score = 100

\* C10's case: one query meets a row it is wholly in (written in another
\* case), a row it shares a word with and a row it shares nothing with.
C10_Witness ==
    /\ Ran("common")
    /\ ~Ran("fuzzy")
    /\ \E i \in DOMAIN common_word_matches :
            /\ common_word_matches[i].score = 100
            /\ common_word_matches[i].question # NaN
            /\ common_word_matches[i].question # user_input
    /\ \E i \in DOMAIN common_word_matches : common_word_matches[i].score = 70
    /\ \E p \in Places : Owed(RowAt(p)) = 0

\* the place of a hit among the hits, in the order the dataframes and rows
\* are gone over
Rank(p) == Cardinality({q \in Hits : NotAfter(q, p)})

\* C11: when the common-word stage finds matches, display_response ends
\* there and the page holds the heading and then exactly the first
\* min(3, number of matches) matching rows, in the order of the dataframes
\* and of the rows within each, whatever their scores; when no row holds
\* every query word, each row shown carries the score 70.
C11_FirstThreeInOrder ==
    (Ran("common") /\ ~Ran("fuzzy") /\ Hits # {}) =>
        /\ pc = "done"
        /\ Len(shown) = 1 + Least(3, Cardinality(Hits))
        /\ shown[1] = [call |-> "write", text |-> "### Exact Matches",
                       match |-> NoMatch]
        /\ \A p \in Hits :
                Rank(p) <= 3 =>
                    /\ shown[1 + Rank(p)].call = "success"
                    /\ shown[1 + Rank(p)].match
                            = [file_name |-> data[p[1]].file_name,
                               question |-> RowAt(p).Question,
                               score |-> Owed(RowAt(p)),
                               answer |-> RowAt(p).Answer]
        /\ (\A p \in Hits : Owed(RowAt(p)) = 70) =>
                \A i \in 2..Len(shown) : shown[i].match.score = 70

\* C11's case: four rows of two dataframes match, the first with score 70
\* and a later one with score 100, so three are shown, one is cut off, and
\* a sort by score would have changed the page.
C11_Witness ==
    /\ Ran("common")
    /\ Cardinality(Hits) = 4
    /\ \E p, q \in Hits : p[1] # q[1]
    /\ Len(shown) = 4
    /\ shown[2].match.score = 70
    /\ \E p \in Hits : Owed(RowAt(p)) = 100

\* the files of the semesters one of whose subjects is a token of the query:
\* a token is a lowercase word, a subject the whole name as written
MatchedFiles ==
    {<<"Preprocessed_", Semester_subject_names[k].semester,
       "_Syllabus_Question_Answer.csv">> :
        k \in {n \in 1..Len(Semester_subject_names) :
                \E j \in 1..Len(Semester_subject_names[n].subjects) :
                    /\ Len(Semester_subject_names[n].subjects[j]) = 1
                    /\ Semester_subject_names[n].subjects[j][1].cased
                            \in QueryWords}}

\* every list lines 228-232 can build: the files of some of the semesters,
\* in the order of the dictionary
FileLists ==
    {SelectSeq([k \in 1..Len(Semester_subject_names) |->
                    <<"Preprocessed_", Semester_subject_names[k].semester,
                      "_Syllabus_Question_Answer.csv">>],
               LAMBDA f : f \in S) :
        S \in SUBSET {<<"Preprocessed_", Semester_subject_names[k].semester,
                        "_Syllabus_Question_Answer.csv">> :
                            k \in 1..Len(Semester_subject_names)}}

\* lines 235-244 return, of any list they are given, only files of that list
SyllabusWordKeeps ==
    \A files \in FileLists :
        LET returned == SyllabusWord(files)
        IN  \A i \in DOMAIN returned :
                \E j \in DOMAIN files : files[j] = returned[i]

=============================================================================
